---- MODULE Spec2Model ----
(***************************************************************************)
(* simple-basex: the Session of src/index.js as a state machine.           *)
(*                                                                         *)
(* Node.js runs every event handler to completion, so each action below is *)
(* one event (socket 'connect', 'data', 'end', a write-completion callback,*)
(* an application call of execute) together with every synchronous call   *)
(* the handler makes.  The handlers are operators on a record s holding    *)
(* the session's fields, the socket and the observations made so far.      *)
(*                                                                         *)
(* A JavaScript string is the sequence of its code points, a Buffer the    *)
(* sequence of its bytes.                                                  *)
(***************************************************************************)
EXTENDS Integers, Sequences, FiniteSets, TLC

VARIABLES
    \* fields of Session (index.js:48-54)
    stringBuffer,        \* [length, data]: capacity and the bytes below the offset
    stringBufferOffset,
    inEscape,
    waiting,             \* <<>> or <<reader, handler>>
    buffers,             \* list of buffers with unconsumed data
    busy,
    queue,
    \* the socket (index.js:56-62, 84)
    written,             \* the buffers handed to socket.write, in order
    writeCallbacks,      \* callbacks of writes that have not completed yet
    net,                 \* bytes the server has sent and no 'data' event delivered yet
    connected,
    ended,
    \* the server at the other end of the socket
    nonceSent,           \* <<>> or <<nonce>>: the nonce the server greeted with
    serverSent,          \* the answers the server has sent: the login status, then
                         \* one [result, info, code] for each command, in order,
                         \* each with the offset in the server's stream where it ends
    \* what the application observes
    emitted,             \* events emitted by the session, in order
    calls,               \* handler.call(...) made by invokeHandler, in order; in a
                         \* decoder run, the calls the readers' handlers received
    issued,              \* execute calls made, in order; in a decoder run, the
                         \* readString and readByte calls made
    finished,            \* completed reply chains: arguments of invokeHandler
    \* the decoder on its own
    sample               \* [string, bytes]: the byte string and the raw bytes a
                         \* decoder run is fed; empty in a session run

vars == <<stringBuffer, stringBufferOffset, inEscape, waiting, buffers, busy, queue,
          written, writeCallbacks, net, connected, ended,
          nonceSent, serverSent, emitted, calls, issued, finished, sample>>

----------------------------------------------------------------------------
(* Bounds of the model *)

\* execute calls the application makes in all, counting for each call that
\* passes the nesting handler the further call that handler makes
MaxExec == 3

\* the longest byte string a decoder run is fed
MaxLen == 2

----------------------------------------------------------------------------
(* Values *)

\* sessionDefaults.initialStringBufferSize
InitialStringBufferSize == 65536

\* sessionDefaults.user and sessionDefaults.password: 'admin'
User == <<97, 100, 109, 105, 110>>
Password == <<97, 100, 109, 105, 110>>

\* the value of a parameter no argument was passed for
Undefined == -1

\* the handlers an application passes to execute: none, one that only
\* records its arguments, and one that issues a further execute (test.js:20-25)
NoHandler == "undefined"
Handlers == {NoHandler, "handler", "nestingHandler"}

\* command texts: the application's n-th call executes the n-th capital
\* letter ('A', 'B', ...), so that every call is told from the others; 'exit'
\* is what the nesting handler executes
Command(n) == <<64 + n>>
ExitCommand == <<101, 120, 105, 116>>

\* what the server answers: result and info strings, status bytes, the nonce;
\* the nonce is the one character U+0000, which the server has to escape
Results == {<<>>, <<82>>}
Infos == {<<>>, <<73>>}
StatusBytes == {0, 1}
Nonces == {<<0>>}

\* what a decoder run is fed: byte strings over the terminator 0x00, the escape
\* byte 0xFF, the letter 'A' and the two bytes of U+00E9, followed by two raw
\* bytes drawn from those the string framing gives a meaning to
WireBytes == {0, 65, 195, 169, 255}
ByteStrings == UNION {[1..n -> WireBytes] : n \in 0..MaxLen}
RawBytes == {0, 255}
RawTails == [1..2 -> RawBytes]

\* sizes the string buffer starts with: options.initialStringBufferSize
Capacities == {1, 2, InitialStringBufferSize}
SmallCapacities == {0, 1, 2}

\* the empty continuation fields
NoString == <<>>

\* a JavaScript value passed to an application handler
JsString(str) == [type |-> "string", value |-> str]

\* the byte a readByte continuation is passed
JsNumber(n) == [type |-> "number", value |-> n]

\* a callback: the closure's code (k) and the variables it closes over
Callback(k, query, handler, args, functions) ==
    [k |-> k, query |-> query, handler |-> handler, args |-> args, functions |-> functions]

\* an emitted event: its name and what its argument carries
Event(name, message, query, result, info, code) ==
    [name |-> name, message |-> message, query |-> query, result |-> result,
     info |-> info, code |-> code]

----------------------------------------------------------------------------
(* Text encodings *)

\* crypto's md5(...).digest("hex"), kept abstract: an injective bracketing
\* of its input
md5(str) == <<40>> \o str \o <<41>>

\* Buffer.write(string) / Buffer.byteLength: UTF-8 encoding of code points
RECURSIVE Utf8Encode(_)
Utf8Encode(str) ==
    IF str = <<>> THEN <<>>
    ELSE LET c == Head(str) IN
         (IF c < 128 THEN <<c>>
          ELSE IF c < 2048 THEN <<192 + (c \div 64), 128 + (c % 64)>>
          ELSE <<224 + (c \div 4096), 128 + ((c \div 64) % 64), 128 + (c % 64)>>)
         \o Utf8Encode(Tail(str))

\* Buffer.toString('utf8'): UTF-8 decoding, U+FFFD for a byte that starts no
\* valid sequence
RECURSIVE Utf8Decode(_)
Utf8Decode(b) ==
    IF b = <<>> THEN <<>>
    ELSE IF b[1] < 128 THEN <<b[1]>> \o Utf8Decode(Tail(b))
    ELSE IF b[1] \in 194..223 /\ Len(b) >= 2 /\ b[2] \in 128..191
         THEN <<(b[1] - 192) * 64 + (b[2] - 128)>> \o Utf8Decode(SubSeq(b, 3, Len(b)))
    ELSE IF b[1] \in 224..239 /\ Len(b) >= 3 /\ b[2] \in 128..191 /\ b[3] \in 128..191
         THEN <<(b[1] - 224) * 4096 + (b[2] - 128) * 64 + (b[3] - 128)>>
              \o Utf8Decode(SubSeq(b, 4, Len(b)))
    ELSE <<65533>> \o Utf8Decode(Tail(b))

\* the server's framing of a string: 0x00 and 0xFF prefixed by 0xFF, then 0x00
RECURSIVE Escape(_)
Escape(b) ==
    IF b = <<>> THEN <<>>
    ELSE (IF Head(b) \in {0, 255} THEN <<255, Head(b)>> ELSE <<Head(b)>>) \o Escape(Tail(b))

\* a byte string framed: escaped and terminated
EncodeBytes(b) == Escape(b) \o <<0>>

EncodeString(str) == EncodeBytes(Utf8Encode(str))

\* the server's answer to a command: two terminated strings and a status byte
ReplyBytes(result, info, code) == EncodeString(result) \o EncodeString(info) \o <<code>>

----------------------------------------------------------------------------
(* The session as one record *)

State ==
    [stringBuffer |-> stringBuffer, stringBufferOffset |-> stringBufferOffset,
     inEscape |-> inEscape, waiting |-> waiting, buffers |-> buffers, busy |-> busy,
     queue |-> queue, written |-> written, writeCallbacks |-> writeCallbacks,
     emitted |-> emitted, calls |-> calls, issued |-> issued, finished |-> finished]

Becomes(s) ==
    /\ stringBuffer' = s.stringBuffer
    /\ stringBufferOffset' = s.stringBufferOffset
    /\ inEscape' = s.inEscape
    /\ waiting' = s.waiting
    /\ buffers' = s.buffers
    /\ busy' = s.busy
    /\ queue' = s.queue
    /\ written' = s.written
    /\ writeCallbacks' = s.writeCallbacks
    /\ emitted' = s.emitted
    /\ calls' = s.calls
    /\ issued' = s.issued
    /\ finished' = s.finished

----------------------------------------------------------------------------
(* Session.prototype.* *)

\* socket.write(buffer, handler): the bytes go out, the callback waits for
\* the write to complete
WriteStrings(s, strings, handler) ==
    LET RECURSIVE Pack(_)
        Pack(strs) == IF strs = <<>> THEN <<>>
                      ELSE Utf8Encode(Head(strs)) \o <<0>> \o Pack(Tail(strs))
    IN [s EXCEPT !.written = Append(@, Pack(strings)),
                 !.writeCallbacks = Append(@, handler)]

\* doubles the buffer when it is full, then stores the byte; a store past the
\* end of a Buffer is dropped
PushToStringBuffer(s, byte) ==
    LET offset == s.stringBufferOffset
        length == IF s.stringBuffer.length = offset THEN offset * 2
                  ELSE s.stringBuffer.length
        kept == SubSeq(s.stringBuffer.data, 1, IF offset < length THEN offset ELSE length)
    IN [s EXCEPT !.stringBuffer = [length |-> length,
                                   data |-> IF offset < length THEN Append(kept, byte)
                                            ELSE kept],
                 !.stringBufferOffset = offset + 1]

\* returns [s, found, str]: found is FALSE for the null return
RECURSIVE GetStringFromBuffers(_)
RECURSIVE ScanBuffer(_, _, _)
\* ScanBuffer leaving inEscape set once an escape byte was seen
ScanBuffer_KeepingEscape(s, buffer, i) ==
    IF i > Len(buffer) THEN GetStringFromBuffers(s)
    ELSE LET byte == buffer[i] IN
         IF s.inEscape
         THEN ScanBuffer(PushToStringBuffer(s, byte), buffer, i + 1)
         ELSE IF byte = 255
         THEN ScanBuffer([s EXCEPT !.inEscape = TRUE], buffer, i + 1)
         ELSE IF byte = 0
         THEN LET retval == Utf8Decode(s.stringBuffer.data)
                  s1 == [s EXCEPT !.stringBufferOffset = 0, !.stringBuffer.data = <<>>]
                  s2 == IF Len(buffer) > i
                        THEN [s1 EXCEPT !.buffers = <<SubSeq(buffer, i + 1, Len(buffer))>> \o @]
                        ELSE s1
              IN [s |-> s2, found |-> TRUE, str |-> retval]
         ELSE ScanBuffer(PushToStringBuffer(s, byte), buffer, i + 1)

\* ScanBuffer putting the rest of the buffer back with push instead of unshift
ScanBuffer_PushingRemainder(s, buffer, i) ==
    IF i > Len(buffer) THEN GetStringFromBuffers(s)
    ELSE LET byte == buffer[i] IN
         IF s.inEscape
         THEN ScanBuffer([PushToStringBuffer(s, byte) EXCEPT !.inEscape = FALSE], buffer, i + 1)
         ELSE IF byte = 255
         THEN ScanBuffer([s EXCEPT !.inEscape = TRUE], buffer, i + 1)
         ELSE IF byte = 0
         THEN LET retval == Utf8Decode(s.stringBuffer.data)
                  s1 == [s EXCEPT !.stringBufferOffset = 0, !.stringBuffer.data = <<>>]
                  s2 == IF Len(buffer) > i
                        THEN [s1 EXCEPT !.buffers = Append(@, SubSeq(buffer, i + 1, Len(buffer)))]
                        ELSE s1
              IN [s |-> s2, found |-> TRUE, str |-> retval]
         ELSE ScanBuffer(PushToStringBuffer(s, byte), buffer, i + 1)

\* the loop of getStringFromBuffers over one buffer, from index i
ScanBuffer(s, buffer, i) ==
    IF i > Len(buffer) THEN GetStringFromBuffers(s)
    ELSE LET byte == buffer[i] IN
         IF s.inEscape
         THEN ScanBuffer([PushToStringBuffer(s, byte) EXCEPT !.inEscape = FALSE], buffer, i + 1)
         ELSE IF byte = 255
         THEN ScanBuffer([s EXCEPT !.inEscape = TRUE], buffer, i + 1)
         ELSE IF byte = 0
         THEN LET retval == Utf8Decode(s.stringBuffer.data)
                  s1 == [s EXCEPT !.stringBufferOffset = 0, !.stringBuffer.data = <<>>]
                  s2 == IF Len(buffer) > i
                        THEN [s1 EXCEPT !.buffers = <<SubSeq(buffer, i + 1, Len(buffer))>> \o @]
                        ELSE s1
              IN [s |-> s2, found |-> TRUE, str |-> retval]
         ELSE ScanBuffer(PushToStringBuffer(s, byte), buffer, i + 1)

\* getStringFromBuffers with the escape flag a local variable of the call
GetStringFromBuffers_ForgettingEscape(s) ==
    IF Len(s.buffers) > 0
    THEN ScanBuffer([s EXCEPT !.buffers = Tail(@), !.inEscape = FALSE], Head(s.buffers), 1)
    ELSE [s |-> s, found |-> FALSE, str |-> NoString]

GetStringFromBuffers(s) ==
    IF Len(s.buffers) > 0
    THEN ScanBuffer([s EXCEPT !.buffers = Tail(@)], Head(s.buffers), 1)
    ELSE [s |-> s, found |-> FALSE, str |-> NoString]

\* getByteFromBuffers dropping the first buffer whatever its length
GetByteFromBuffers_Shifting(s) ==
    [s |-> [s EXCEPT !.buffers = Tail(@)], byte |-> s.buffers[1][1]]

\* returns [s, byte]
GetByteFromBuffers(s) ==
    LET first == s.buffers[1] IN
    [s |-> IF Len(first) > 1
           THEN [s EXCEPT !.buffers[1] = Tail(first)]
           ELSE [s EXCEPT !.buffers = Tail(@)],
     byte |-> first[1]]

Emit(s, event) == [s EXCEPT !.emitted = Append(@, event)]

DefaultHandler(s, result, info, code) ==
    Emit(s, Event("result", "", NoString, result, info, code))

\* execute that writes the command whether the session is busy or not
Execute_IgnoringBusy(s, query, handler0) ==
    LET handler == IF handler0 = NoHandler THEN "defaultHandler" ELSE handler0 IN
    WriteStrings([s EXCEPT !.busy = TRUE], <<query>>,
                 Callback("startChain", query, handler, <<>>, <<>>))

\* execute that writes the command without setting busy
Execute_NotMarkingBusy(s, query, handler0) ==
    LET handler == IF handler0 = NoHandler THEN "defaultHandler" ELSE handler0 IN
    IF s.busy
    THEN [s EXCEPT !.queue = <<[query |-> query, handler |-> handler]>> \o @]
    ELSE WriteStrings(s, <<query>>, Callback("startChain", query, handler, <<>>, <<>>))

\* execute(query, handler): queued while busy, else written to the socket;
\* the write's callback starts the chain that reads the reply
Execute(s, query, handler0) ==
    LET handler == IF handler0 = NoHandler THEN "defaultHandler" ELSE handler0 IN
    IF s.busy
    THEN [s EXCEPT !.queue = <<[query |-> query, handler |-> handler]>> \o @]
    ELSE WriteStrings([s EXCEPT !.busy = TRUE], <<query>>,
                      Callback("startChain", query, handler, <<>>, <<>>))

\* an execute call made by the application, from outside or inside a handler
CallExecute(s, from, query, handler) ==
    Execute([s EXCEPT !.issued = Append(@, [from |-> from, query |-> query,
                                            handler |-> handler])],
            query, handler)

\* checkQueue that takes the newest thunk (queue.shift()) instead of the oldest
CheckQueue_Newest(s) ==
    LET s1 == [s EXCEPT !.busy = FALSE] IN
    IF Len(s1.queue) > 0
    THEN LET thunk == s1.queue[1] IN
         Execute([s1 EXCEPT !.queue = Tail(@)], thunk.query, thunk.handler)
    ELSE s1

CheckQueue(s) ==
    LET s1 == [s EXCEPT !.busy = FALSE] IN
    IF Len(s1.queue) > 0
    THEN LET thunk == s1.queue[Len(s1.queue)] IN
         Execute([s1 EXCEPT !.queue = SubSeq(@, 1, Len(@) - 1)], thunk.query, thunk.handler)
    ELSE s1

\* handler.call(this, result, info)
CallHandler(s, query, handler, result, info) ==
    LET s1 == [s EXCEPT !.calls = Append(@, [handler |-> handler, query |-> query,
                                             args |-> <<JsString(result), JsString(info)>>])]
    IN IF handler = "defaultHandler" THEN DefaultHandler(s1, result, info, Undefined)
       ELSE IF handler = "nestingHandler"
       THEN CallExecute(s1, "handler", ExitCommand, "handler")
       ELSE s1

\* invokeHandler that drains the queue after a failed command too
InvokeHandler_DrainOnError(s, query, handler, args) ==
    LET result == args[1]
        info == args[2]
        code == args[3]
        s1 == [s EXCEPT !.finished = Append(@, [query |-> query, handler |-> handler,
                                                result |-> result, info |-> info,
                                                code |-> code])]
    IN IF code = 0
       THEN CheckQueue(CallHandler(s1, query, handler, result, info))
       ELSE CheckQueue(Emit(s1, Event("error", "BaseX query failed", query, NoString,
                                      info, Undefined)))

\* invokeHandler(result, info, code), the chain's terminal handler
InvokeHandler(s, query, handler, args) ==
    LET result == args[1]
        info == args[2]
        code == args[3]
        s1 == [s EXCEPT !.finished = Append(@, [query |-> query, handler |-> handler,
                                                result |-> result, info |-> info,
                                                code |-> code])]
    IN IF code = 0
       THEN CheckQueue(CallHandler(s1, query, handler, result, info))
       ELSE Emit(s1, Event("error", "BaseX query failed", query, NoString, info, Undefined))

RECURSIVE Invoke(_, _, _)

ReadByte(s, handler) ==
    IF Len(s.buffers) > 0
    THEN LET r == GetByteFromBuffers(s) IN Invoke(r.s, handler, r.byte)
    ELSE [s EXCEPT !.waiting = <<"readByte", handler>>]

\* if (string): null and the empty string both take the else branch
ReadString(s, handler) ==
    LET r == GetStringFromBuffers(s) IN
    IF r.found /\ r.str # <<>>
    THEN Invoke(r.s, handler, r.str)
    ELSE [r.s EXCEPT !.waiting = <<"readString", handler>>]

CallReader(s, reader, handler) ==
    IF reader = "readString" THEN ReadString(s, handler) ELSE ReadByte(s, handler)

\* maybeInvokeNext calling functions[0] without shifting it off the list
MaybeInvokeNext_RepeatingStep(s, c, arg) ==
    LET args == Append(c.args, arg) IN
    IF Len(c.functions) > 0
    THEN CallReader(s, Head(c.functions), [c EXCEPT !.args = args])
    ELSE InvokeHandler(s, c.query, c.handler, args)

\* chain's maybeInvokeNext(arg); c holds the closure's args and functions
MaybeInvokeNext(s, c, arg) ==
    LET args == Append(c.args, arg) IN
    IF Len(c.functions) > 0
    THEN CallReader(s, Head(c.functions),
                    [c EXCEPT !.args = args, !.functions = Tail(c.functions)])
    ELSE InvokeHandler(s, c.query, c.handler, args)

\* chain(handler, first, ...functions)
Chain(s, query, handler, first, functions) ==
    CallReader(s, first, Callback("maybeInvokeNext", query, handler, <<>>, functions))

\* a login callback that lets the queue run after a failed login too
LoginStatus_DrainOnFailure(s, loginStatus) ==
    IF loginStatus = 0
    THEN Emit(CheckQueue(s), Event("loggedIn", "", NoString, NoString, NoString, Undefined))
    ELSE CheckQueue(Emit(s, Event("error", "authorization failed", NoString, NoString,
                                  NoString, Undefined)))

\* the callback getLoginStatus passes to readByte
LoginStatus(s, loginStatus) ==
    IF loginStatus = 0
    THEN Emit(CheckQueue(s), Event("loggedIn", "", NoString, NoString, NoString, Undefined))
    ELSE Emit(s, Event("error", "authorization failed", NoString, NoString, NoString,
                       Undefined))

GetLoginStatus(s) ==
    ReadByte(s, Callback("loginStatus", NoString, "", <<>>, <<>>))

\* a timestamp callback that lets the queue run once the credentials are written
Timestamp_CheckingQueue(s, timestamp) ==
    CheckQueue(WriteStrings(s, <<User, md5(md5(Password) \o timestamp)>>,
                            Callback("getLoginStatus", NoString, "", <<>>, <<>>)))

\* the callback performHandshake passes to readString
Timestamp(s, timestamp) ==
    WriteStrings(s, <<User, md5(md5(Password) \o timestamp)>>,
                 Callback("getLoginStatus", NoString, "", <<>>, <<>>))

\* a continuation that only records what it is passed
Deliver(s, handler, arg) ==
    [s EXCEPT !.calls = Append(@, [handler |-> handler.handler, query |-> NoString,
                                   args |-> <<IF handler.handler = "readString"
                                              THEN JsString(arg) ELSE JsNumber(arg)>>])]

\* handler.call(this, arg) for the callbacks a read can hold
Invoke(s, handler, arg) ==
    CASE handler.k = "timestamp" -> Timestamp(s, arg)
      [] handler.k = "loginStatus" -> LoginStatus(s, arg)
      [] handler.k = "maybeInvokeNext" -> MaybeInvokeNext(s, handler, arg)
      [] handler.k = "deliver" -> Deliver(s, handler, arg)

PerformHandshake(s) ==
    ReadString(s, Callback("timestamp", NoString, "", <<>>, <<>>))

\* popAndInvokeHandler reading this.waiting without clearing it
PopAndInvokeHandler_KeepingSlot(s, arg) == Invoke(s, s.waiting[2], arg)

PopAndInvokeHandler(s, arg) ==
    LET handler == s.waiting[2] IN
    Invoke([s EXCEPT !.waiting = <<>>], handler, arg)

HandleData(s, data) ==
    LET s1 == [s EXCEPT !.buffers = Append(@, data)] IN
    IF s1.waiting # <<>> /\ s1.waiting[1] = "readString"
    THEN LET r == GetStringFromBuffers(s1) IN
         IF r.found THEN PopAndInvokeHandler(r.s, r.str) ELSE r.s
    ELSE IF s1.waiting # <<>> /\ s1.waiting[1] = "readByte"
    THEN LET r == GetByteFromBuffers(s1) IN PopAndInvokeHandler(r.s, r.byte)
    ELSE s1

\* the callback of a completed socket.write
WriteCompleted(s, handler) ==
    IF handler.k = "getLoginStatus"
    THEN GetLoginStatus(s)
    ELSE Chain(s, handler.query, handler.handler, "readString", <<"readString", "readByte">>)

----------------------------------------------------------------------------
(* The state machine *)

Init ==
    /\ stringBuffer = [length |-> InitialStringBufferSize, data |-> <<>>]
    /\ stringBufferOffset = 0
    /\ inEscape = FALSE
    /\ waiting = <<>>
    /\ buffers = <<>>
    /\ busy = TRUE
    /\ queue = <<>>
    /\ written = <<>>
    /\ writeCallbacks = <<>>
    /\ net = <<>>
    /\ connected = FALSE
    /\ ended = FALSE
    /\ nonceSent = <<>>
    /\ serverSent = <<>>
    /\ emitted = <<>>
    /\ calls = <<>>
    /\ issued = <<>>
    /\ finished = <<>>
    /\ sample = [string |-> <<>>, bytes |-> <<>>]

AppIssued == Cardinality({i \in 1..Len(issued) : issued[i].from = "app"})

NestingIssued == Cardinality({i \in 1..Len(issued) : issued[i].handler = "nestingHandler"})

\* socket 'connect'
Connect ==
    /\ ~connected
    /\ connected' = TRUE
    /\ Becomes(PerformHandshake(State))
    /\ UNCHANGED <<net, ended, nonceSent, serverSent, sample>>

\* the server greets a new connection with its nonce
ServerNonce ==
    /\ connected /\ ~ended /\ nonceSent = <<>>
    /\ \E nonce \in Nonces :
          /\ net' = net \o EncodeString(nonce)
          /\ nonceSent' = <<nonce>>
    /\ UNCHANGED <<stringBuffer, stringBufferOffset, inEscape, waiting, buffers, busy,
                   queue, written, writeCallbacks, connected, ended, serverSent,
                   emitted, calls, issued, finished, sample>>

\* the server answers the credentials with one status byte
ServerLogin ==
    /\ ~ended /\ nonceSent # <<>> /\ Len(serverSent) = 0 /\ Len(written) > 0
    /\ \E code \in StatusBytes :
          /\ net' = Append(net, code)
          /\ serverSent' = <<[result |-> NoString, info |-> NoString, code |-> code,
                               end |-> Len(EncodeString(nonceSent[1])) + 1]>>
    /\ UNCHANGED <<stringBuffer, stringBufferOffset, inEscape, waiting, buffers, busy,
                   queue, written, writeCallbacks, connected, ended, nonceSent,
                   emitted, calls, issued, finished, sample>>

\* the server answers a command with result, info and a status byte
ServerReply ==
    /\ ~ended /\ Len(serverSent) > 0 /\ Len(written) > Len(serverSent)
    /\ \E result \in Results, info \in Infos, code \in StatusBytes :
          /\ net' = net \o ReplyBytes(result, info, code)
          /\ serverSent' = Append(serverSent,
                                  [result |-> result, info |-> info, code |-> code,
                                   end |-> serverSent[Len(serverSent)].end
                                           + Len(ReplyBytes(result, info, code))])
    /\ UNCHANGED <<stringBuffer, stringBufferOffset, inEscape, waiting, buffers, busy,
                   queue, written, writeCallbacks, connected, ended, nonceSent,
                   emitted, calls, issued, finished, sample>>

\* socket 'data': any non-empty prefix of what is in flight arrives as one buffer
Data ==
    /\ connected /\ ~ended /\ Len(net) > 0
    /\ \E k \in 1..Len(net) :
          /\ Becomes(HandleData(State, SubSeq(net, 1, k)))
          /\ net' = SubSeq(net, k + 1, Len(net))
    /\ UNCHANGED <<connected, ended, nonceSent, serverSent, sample>>

\* a socket.write completes and its callback runs
WriteDone ==
    /\ Len(writeCallbacks) > 0
    /\ Becomes(WriteCompleted([State EXCEPT !.writeCallbacks = Tail(@)],
                              Head(writeCallbacks)))
    /\ UNCHANGED <<net, connected, ended, nonceSent, serverSent, sample>>

\* socket 'end', after everything the server sent has been delivered
End ==
    /\ connected /\ ~ended /\ Len(net) = 0
    /\ ended' = TRUE
    /\ busy' = TRUE
    /\ UNCHANGED <<stringBuffer, stringBufferOffset, inEscape, waiting, buffers,
                   queue, written, writeCallbacks, net, connected, nonceSent, serverSent,
                   emitted, calls, issued, finished, sample>>

\* the application calls session.execute(query, handler)
AppExecute ==
    /\ \E handler \in Handlers :
          /\ AppIssued + NestingIssued + (IF handler = "nestingHandler" THEN 2 ELSE 1)
                <= MaxExec
          /\ Becomes(CallExecute(State, "app", Command(AppIssued + 1), handler))
    /\ UNCHANGED <<net, connected, ended, nonceSent, serverSent, sample>>

Next ==
    \/ Connect
    \/ ServerNonce
    \/ ServerLogin
    \/ ServerReply
    \/ Data
    \/ WriteDone
    \/ End
    \/ AppExecute

Spec == Init /\ [][Next]_vars

----------------------------------------------------------------------------
(* The decoder on its own: a connected session with no handshake, fed one  *)
(* framed byte string and two raw bytes in fragments, and read by one      *)
(* readString and then readByte calls whose continuations record what they *)
(* are passed                                                              *)

SampleStream == EncodeBytes(sample.string) \o sample.bytes

InitDecoderWith(capacities) ==
    /\ \E capacity \in capacities :
          stringBuffer = [length |-> capacity, data |-> <<>>]
    /\ stringBufferOffset = 0
    /\ inEscape = FALSE
    /\ waiting = <<>>
    /\ buffers = <<>>
    /\ busy = TRUE
    /\ queue = <<>>
    /\ written = <<>>
    /\ writeCallbacks = <<>>
    /\ \E string \in ByteStrings, bytes \in RawTails :
          /\ sample = [string |-> string, bytes |-> bytes]
          /\ net = EncodeBytes(string) \o bytes
    /\ connected = TRUE
    /\ ended = FALSE
    /\ nonceSent = <<>>
    /\ serverSent = <<>>
    /\ emitted = <<>>
    /\ calls = <<>>
    /\ issued = <<>>
    /\ finished = <<>>

InitDecoder == InitDecoderWith(Capacities)

CallRead(s, reader) ==
    CallReader([s EXCEPT !.issued = Append(@, [from |-> "reader", query |-> NoString,
                                               handler |-> reader])],
               reader, Callback("deliver", NoString, reader, <<>>, <<>>))

\* readString(handler), once, with no read pending
CallReadString ==
    /\ waiting = <<>> /\ Len(issued) = 0
    /\ Becomes(CallRead(State, "readString"))
    /\ UNCHANGED <<net, connected, ended, nonceSent, serverSent, sample>>

\* readByte(handler), after the string was delivered, with no read pending
CallReadByte ==
    /\ waiting = <<>> /\ Len(issued) \in 1..2 /\ Len(calls) = Len(issued)
    /\ Becomes(CallRead(State, "readByte"))
    /\ UNCHANGED <<net, connected, ended, nonceSent, serverSent, sample>>

NextDecoder ==
    \/ Data
    \/ CallReadString
    \/ CallReadByte

SpecDecoder == InitDecoder /\ [][NextDecoder]_vars

\* the same with a string buffer that starts at most two bytes long
InitAccumulator == InitDecoderWith(SmallCapacities)

SpecAccumulator == InitAccumulator /\ [][NextDecoder]_vars

----------------------------------------------------------------------------
(* Vocabulary of the properties *)

RECURSIVE TotalLen(_)
TotalLen(seqs) == IF seqs = <<>> THEN 0 ELSE Len(Head(seqs)) + TotalLen(Tail(seqs))

IsPrefix(a, b) == Len(a) <= Len(b) /\ SubSeq(b, 1, Len(a)) = a

IsSuffix(a, b) == Len(a) <= Len(b) /\ SubSeq(b, Len(b) - Len(a) + 1, Len(b)) = a

\* the bytes of a list of buffers, in order
RECURSIVE Flatten(_)
Flatten(seqs) == IF seqs = <<>> THEN <<>> ELSE Head(seqs) \o Flatten(Tail(seqs))

\* b is the UTF-8 encoding of a string
ValidUtf8(b) == Utf8Encode(Utf8Decode(b)) = b

\* a call a recording continuation received
Delivered(reader, value) == [handler |-> reader, query |-> NoString, args |-> <<value>>]

\* the bytes of the sample a 'data' event has delivered, and how many this
\* step delivers
Received == SubSeq(SampleStream, 1, Len(SampleStream) - Len(net))
Arriving == Len(net) - Len(net')

\* the number of bytes of the nonce and the server's first n answers
ServerBytes(n) ==
    IF n = 0 THEN (IF nonceSent = <<>> THEN 0 ELSE Len(EncodeString(nonceSent[1])))
    ELSE serverSent[n].end

\* the number of bytes of the server's stream the decoder has taken from the chain
Consumed == ServerBytes(Len(serverSent)) - Len(net) - TotalLen(buffers)

\* the queries of the commands written to the socket, in order
SentQueries ==
    [i \in 1..(Len(written) - 1) |->
        Utf8Decode(SubSeq(written[i + 1], 1, Len(written[i + 1]) - 1))]

IssuedQueries == [i \in 1..Len(issued) |-> issued[i].query]

Names(name) == {i \in 1..Len(emitted) : emitted[i].name = name}

LoginSucceeded == Len(serverSent) >= 1 /\ serverSent[1].code = 0
LoginFailed == Len(serverSent) >= 1 /\ serverSent[1].code # 0
LoginStatusConsumed == Len(serverSent) >= 1 /\ Consumed >= ServerBytes(1)

\* every event the server and the socket owe the session has been processed
Quiescent ==
    /\ connected /\ nonceSent # <<>>
    /\ Len(net) = 0 /\ Len(writeCallbacks) = 0
    /\ Len(written) >= 1 /\ Len(serverSent) = Len(written)

\* the server has answered some command with a non-zero status
CommandFailed == \E i \in 2..Len(serverSent) : serverSent[i].code # 0

LoggedIn == Names("loggedIn") # {}

AllStatusZero == \A i \in 1..Len(serverSent) : serverSent[i].code = 0

----------------------------------------------------------------------------
(* C1: at most one command is in flight.  A command is written to the      *)
(* socket only when the server has answered every earlier write and the    *)
(* decoder has consumed all of those answers, the first of them a login    *)
(* status 0; at most one write callback is outstanding.                    *)
C1_OneCommandInFlight ==
    /\ Len(written) - Len(serverSent) <= 1
    /\ Len(writeCallbacks) <= 1
    /\ Len(written) >= 2 =>
          /\ Len(serverSent) >= Len(written) - 1
          /\ LoginSucceeded
          /\ Consumed >= ServerBytes(Len(written) - 1)

\* a second command is in flight, the first one's reply consumed
C1_Witness ==
    /\ Len(written) = 3 /\ Len(serverSent) = 2
    /\ Len(issued) >= 2 /\ Len(finished) = 1

----------------------------------------------------------------------------
(* C2: with every status 0 and the transport open, the commands written    *)
(* are the commands issued, in the order issued, each once; when no event  *)
(* is left to process, every issued command has been written.              *)
C2_AllSentInOrder ==
    (AllStatusZero /\ ~ended) =>
        /\ IsPrefix(SentQueries, IssuedQueries)
        /\ Quiescent => SentQueries = IssuedQueries

----------------------------------------------------------------------------
(* C3: when every reply sent has status 0 and has been delivered, however  *)
(* it was split, the handler of each command has been invoked exactly once *)
(* with exactly (result, info) of its reply, and the session is not busy.  *)
C3_HandlerInvokedOncePerReply ==
    (Quiescent /\ ~ended /\ AllStatusZero) =>
        /\ Len(calls) = Len(serverSent) - 1
        /\ \A i \in 1..Len(calls) :
              i + 1 <= Len(serverSent) =>
                 calls[i].args = <<JsString(serverSent[i + 1].result),
                                   JsString(serverSent[i + 1].info)>>
        /\ ~busy

----------------------------------------------------------------------------
(* C4: when a reply with a non-zero status byte has been delivered, exactly *)
(* one error event carrying the command's text and the reply's info has    *)
(* been emitted, and the command's handler has not been invoked.           *)
C4_ErrorRaisedOnce ==
    \A n \in 2..Len(serverSent) :
        (Quiescent /\ serverSent[n].code # 0) =>
            /\ Cardinality({i \in Names("error") :
                              /\ emitted[i].message = "BaseX query failed"
                              /\ emitted[i].query = SentQueries[n - 1]
                              /\ emitted[i].info = serverSent[n].info}) = 1
            /\ \A j \in 1..Len(calls) : calls[j].query # SentQueries[n - 1]

----------------------------------------------------------------------------
(* C5: once the server has answered a command with a non-zero status, the  *)
(* session is busy in every later state, nothing more is written to the    *)
(* socket and no thunk leaves the queue (execute only adds at its front).  *)
C5_StalledAfterFailure ==
    [][CommandFailed' =>
          /\ busy'
          /\ CommandFailed => (written' = written /\ IsSuffix(queue, queue'))]_vars

\* the failure has been reported and a later execute sits in the queue
C5_Witness ==
    /\ CommandFailed /\ Quiescent
    /\ \E i \in Names("error") : emitted[i].message = "BaseX query failed"
    /\ Len(queue) >= 1

----------------------------------------------------------------------------
(* C6: every 'result' event carries the result and info of a reply and the *)
(* status code 0 of that reply.                                            *)
C6_ResultCarriesCode ==
    \A i \in Names("result") :
        /\ emitted[i].code = 0
        /\ \E n \in 2..Len(serverSent) :
              /\ emitted[i].result = serverSent[n].result
              /\ emitted[i].info = serverSent[n].info

----------------------------------------------------------------------------
\* the writes and events of the handshake, in every state
C7_HandshakeState ==
    /\ Len(written) >= 1 =>
          /\ nonceSent # <<>>
          /\ Consumed >= ServerBytes(0)
          /\ written[1] = Utf8Encode(User) \o <<0>>
                          \o Utf8Encode(md5(md5(Password) \o nonceSent[1])) \o <<0>>
    /\ \A i \in 2..Len(written) :
          /\ i - 1 <= Len(issued)
          /\ written[i] = Utf8Encode(issued[i - 1].query) \o <<0>>
    /\ Cardinality(Names("loggedIn")) =
          IF LoginSucceeded /\ LoginStatusConsumed THEN 1 ELSE 0

\* the step that emits 'loggedIn'
C7_LoginStep ==
    (~LoggedIn /\ LoggedIn') =>
        IF Len(queue) = 0
        THEN ~busy' /\ written' = written
        ELSE /\ busy'
             /\ queue' = SubSeq(queue, 1, Len(queue) - 1)
             /\ queue[Len(queue)].query = issued[1].query
             /\ written' = Append(written, Utf8Encode(issued[1].query) \o <<0>>)

(* C7: the handshake.  Nothing is written before the whole nonce has been  *)
(* consumed; the first write is exactly user and digest, every later write *)
(* is the next issued command; 'loggedIn' has been emitted once if the     *)
(* login status 0 has been consumed and never otherwise; the step that     *)
(* emits it leaves the session not busy with nothing written, or, when     *)
(* commands are queued, starts the oldest of them, the first one issued.   *)
C7_Handshake == []C7_HandshakeState /\ [][C7_LoginStep]_vars

\* logged in, the first queued command started while another still waits
C7_Witness ==
    /\ LoggedIn
    /\ Len(written) = 2 /\ Len(serverSent) = 1
    /\ Len(queue) >= 1

----------------------------------------------------------------------------
(* C8: after a non-zero login status the session stays busy, only the      *)
(* credentials have ever been written, 'loggedIn' is never emitted, and    *)
(* the error is emitted once, when the status byte is consumed.            *)
C8_LoginFailureIsFinal ==
    LoginFailed =>
        /\ busy
        /\ Len(written) = 1
        /\ ~LoggedIn
        /\ Cardinality({i \in Names("error") :
                           emitted[i].message = "authorization failed"}) =
              IF LoginStatusConsumed THEN 1 ELSE 0

\* the failed login has been reported and an execute sits in the queue
C8_Witness ==
    /\ LoginFailed /\ LoginStatusConsumed
    /\ Names("error") # {}
    /\ Len(queue) >= 1

----------------------------------------------------------------------------
(* C9: once 'end' has been processed the session is busy in every later    *)
(* state and nothing more is written to the socket.                        *)
C9_BusyAfterEnd ==
    [][ended' => (busy' /\ (ended => written' = written))]_vars

----------------------------------------------------------------------------
(* C10: for every completed command executed with a handler, the handler   *)
(* has been invoked with null (status 0) or an Error (status non-zero) as  *)
(* first argument and an object as second.                                 *)
C10_HandlerGetsErrAndData ==
    \A i \in 1..Len(finished) :
        finished[i].handler # "defaultHandler" =>
            \E j \in 1..Len(calls) :
                /\ calls[j].query = finished[i].query
                /\ calls[j].args[1].type = (IF finished[i].code = 0 THEN "null" ELSE "Error")
                /\ calls[j].args[2].type = "object"

----------------------------------------------------------------------------
(* C11: a framed string that arrives as one fragment while a readString is *)
(* pending, nothing of it buffered before, is delivered as the UTF-8       *)
(* decoding of the bytes that were framed, every 0x00 and 0xFF among them  *)
(* unescaped; re-encoded, the delivered string is the original bytes       *)
(* whenever those are the UTF-8 encoding of a string.  The fragment is     *)
(* consumed up to the terminator and what follows it stays in the chain.   *)

C11_SingleFragment ==
    /\ waiting # <<>> /\ waiting[1] = "readString"
    /\ buffers = <<>> /\ net = SampleStream
    /\ Arriving >= Len(EncodeBytes(sample.string))

C11_ConsumesTheEncoding ==
    /\ waiting' = <<>> /\ stringBufferOffset' = 0 /\ ~inEscape'
    /\ Flatten(buffers') = SubSeq(SampleStream, Len(EncodeBytes(sample.string)) + 1,
                                  Arriving)

C11_RoundTripAsText ==
    [][C11_SingleFragment =>
          /\ calls' = <<Delivered("readString", JsString(Utf8Decode(sample.string)))>>
          /\ ValidUtf8(sample.string) =>
                Utf8Encode(calls'[1].args[1].value) = sample.string
          /\ C11_ConsumesTheEncoding]_vars

\* a string with an escaped zero byte arrived whole and was delivered, the raw
\* bytes behind it left in the chain
C11_Witness ==
    /\ sample.string = <<0, 65>>
    /\ calls = <<Delivered("readString", JsString(<<0, 65>>))>>
    /\ buffers = <<sample.bytes>>

\* C11 as stated: the delivered string is the byte string S itself, for
\* every byte string
C11_RoundTripAsBytes ==
    [][C11_SingleFragment =>
          /\ Len(calls') = 1
          /\ Utf8Encode(calls'[1].args[1].value) = sample.string
          /\ C11_ConsumesTheEncoding]_vars

----------------------------------------------------------------------------
(* C12: however the framed string is cut into 'data' events, a readString  *)
(* that is pending when the terminator arrives is resolved by that event,  *)
(* and by no earlier one, with the same string as when the frame arrives   *)
(* whole; a string is delivered at most once, and never before its         *)
(* terminator has arrived.                                                 *)

\* the number of bytes of the framed sample string
FrameLen == Len(EncodeBytes(sample.string))

StringDeliveries == {i \in 1..Len(calls) : calls[i].handler = "readString"}

C12_DeliveredState ==
    /\ Cardinality(StringDeliveries) <= 1
    /\ StringDeliveries # {} =>
          /\ Len(Received) >= FrameLen
          /\ calls[1] = Delivered("readString", JsString(Utf8Decode(sample.string)))
          /\ ValidUtf8(sample.string) => Utf8Encode(calls[1].args[1].value) = sample.string

C12_ArrivalStep ==
    (waiting # <<>> /\ waiting[1] = "readString" /\ Len(Received) < FrameLen
        /\ Arriving > 0) =>
        IF Len(Received) + Arriving >= FrameLen
        THEN /\ calls' = <<Delivered("readString", JsString(Utf8Decode(sample.string)))>>
             /\ waiting' = <<>>
        ELSE /\ calls' = calls
             /\ waiting' = waiting
             /\ buffers' = <<>>

C12_FragmentationInvariance == []C12_DeliveredState /\ [][C12_ArrivalStep]_vars

\* a fragment ended between an escape byte and the zero byte it escapes, with
\* the 'A' before them accumulated and the read still pending
C12_Witness ==
    /\ sample.string = <<65, 0>>
    /\ waiting # <<>> /\ waiting[1] = "readString"
    /\ inEscape /\ stringBuffer.data = <<65>>
    /\ buffers = <<>>

----------------------------------------------------------------------------
(* C13: readString, called when the buffered data begins with a complete   *)
(* framed string, passes that string to its continuation before it returns *)
(* and registers no pending read, the empty string included.               *)

C13_ReadStringDeliversBuffered ==
    [][(Len(issued) = 0 /\ Len(issued') = 1 /\ Len(Received) >= FrameLen) =>
          /\ calls' = <<Delivered("readString", JsString(Utf8Decode(sample.string)))>>
          /\ waiting' = <<>>]_vars

----------------------------------------------------------------------------
(* C14: readByte with a byte buffered passes the first unconsumed byte of  *)
(* the stream to its continuation before it returns and removes that one   *)
(* byte from the chain; with nothing buffered it registers a pending read, *)
(* which the next 'data' event resolves with its first byte, the rest of   *)
(* the event staying in the chain: nothing, when the event is one byte.    *)

\* the next byte of the sample the decoder has not taken from the chain
NextUnconsumed == SampleStream[Len(Received) - TotalLen(buffers) + 1]

C14_Called == Len(issued) >= 1 /\ Len(issued') = Len(issued) + 1

C14_CallStep ==
    C14_Called =>
        IF Len(buffers) > 0
        THEN /\ calls' = Append(calls, Delivered("readByte", JsNumber(NextUnconsumed)))
             /\ NextUnconsumed \in 0..255
             /\ Flatten(buffers') = Tail(Flatten(buffers))
             /\ waiting' = <<>>
        ELSE /\ calls' = calls
             /\ waiting' # <<>> /\ waiting'[1] = "readByte"
             /\ buffers' = <<>>

C14_ArrivalStep ==
    (waiting # <<>> /\ waiting[1] = "readByte" /\ Arriving > 0) =>
        /\ calls' = Append(calls, Delivered("readByte", JsNumber(net[1])))
        /\ Flatten(buffers') = SubSeq(net, 2, Arriving)
        /\ Arriving = 1 => buffers' = <<>>
        /\ waiting' = <<>>

C14_NoEmptyBuffer == \A i \in 1..Len(buffers) : Len(buffers[i]) > 0

C14_ReadByte == []C14_NoEmptyBuffer /\ [][C14_CallStep /\ C14_ArrivalStep]_vars

\* both raw bytes behind the string were read, in stream order, and the
\* chain is empty
C14_Witness ==
    /\ Len(calls) = 3
    /\ calls[2] = Delivered("readByte", JsNumber(sample.bytes[1]))
    /\ calls[3] = Delivered("readByte", JsNumber(sample.bytes[2]))
    /\ sample.bytes = <<0, 255>>
    /\ buffers = <<>>

----------------------------------------------------------------------------
(* C15: the reads of a reply chain run one after the other in the order    *)
(* readString, readString, readByte: the read that is pending is the step  *)
(* that follows the results collected so far and is followed by the steps  *)
(* not started yet.  A chain that was started is either at one of its      *)
(* steps or has invoked its terminal handler, once, and that handler was   *)
(* passed the result, the info and the status byte of the command's reply, *)
(* in this order.                                                          *)

ChainSteps == <<"readString", "readString", "readByte">>

\* the reply chains started: the command writes whose callback has run
ChainsStarted ==
    (IF Len(written) > 0 THEN Len(written) - 1 ELSE 0)
        - Cardinality({i \in 1..Len(writeCallbacks) : writeCallbacks[i].k = "startChain"})

ChainPending == waiting # <<>> /\ waiting[2].k = "maybeInvokeNext"

C15_ChainInOrder ==
    /\ ChainPending =>
          /\ Len(waiting[2].args) < Len(ChainSteps)
          /\ <<waiting[1]>> \o waiting[2].functions
                = SubSeq(ChainSteps, Len(waiting[2].args) + 1, Len(ChainSteps))
    /\ ChainsStarted = Len(finished) + (IF ChainPending THEN 1 ELSE 0)
    /\ \A i \in 1..Len(finished) :
          /\ i + 1 <= Len(serverSent)
          /\ finished[i].result = serverSent[i + 1].result
          /\ finished[i].info = serverSent[i + 1].info
          /\ finished[i].code = serverSent[i + 1].code

\* a chain finished with three different results, and the next chain is at
\* its second step
C15_Witness ==
    /\ Len(finished) >= 1
    /\ finished[1].result = <<82>> /\ finished[1].info = <<73>> /\ finished[1].code = 0
    /\ ChainPending /\ Len(waiting[2].args) = 1

----------------------------------------------------------------------------
(* C16: the pending-read slot is empty or holds one reader with one        *)
(* continuation.  A pending read is replaced only in the 'data' event that *)
(* resolves it, and then its continuation was invoked: the credentials     *)
(* were written, the login was decided, or the chain took the step's       *)
(* result.  No other event touches an occupied slot.                       *)

C16_OneRead ==
    \/ waiting = <<>>
    \/ /\ Len(waiting) = 2
       /\ waiting[1] \in {"readString", "readByte"}
       /\ waiting[2].k \in {"timestamp", "loginStatus", "maybeInvokeNext"}

\* the continuation c of the pending read was invoked in this step
C16_Invoked(c) ==
    CASE c.k = "timestamp" -> Len(written') = Len(written) + 1
      [] c.k = "loginStatus" -> Len(emitted') = Len(emitted) + 1
      [] c.k = "maybeInvokeNext" ->
            \/ /\ waiting' # <<>> /\ waiting'[2].k = "maybeInvokeNext"
               /\ waiting'[2].query = c.query
               /\ Len(waiting'[2].args) > Len(c.args)
               /\ SubSeq(waiting'[2].args, 1, Len(c.args)) = c.args
            \/ /\ Len(finished') = Len(finished) + 1
               /\ LET last == finished'[Len(finished')] IN
                  /\ last.query = c.query
                  /\ Len(c.args) >= 1 => last.result = c.args[1]
                  /\ Len(c.args) >= 2 => last.info = c.args[2]

C16_SlotStep ==
    (waiting # <<>> /\ waiting' # waiting) =>
        /\ Arriving > 0
        /\ C16_Invoked(waiting[2])

C16_PendingReadKept == []C16_OneRead /\ [][C16_SlotStep]_vars

\* the status byte's read is pending: the 'data' event that resolved the info
\* string's read registered it
C16_Witness ==
    /\ ChainPending /\ waiting[1] = "readByte"
    /\ Len(finished) >= 1

----------------------------------------------------------------------------
(* C17: the chain holds, in arrival order, the bytes received that the     *)
(* decoder has not consumed: its concatenation is the end of the received  *)
(* stream.  A 'data' event with no read pending only appends its buffer;   *)
(* any event leaves in the chain the unconsumed end of one of its buffers  *)
(* followed by the buffers behind that one, untouched.                     *)

C17_ChainIsUnconsumedEnd == IsSuffix(Flatten(buffers), Received)

\* the chain a step works on: the buffers, with the arriving one appended
C17_Chain == IF Arriving > 0 THEN Append(buffers, SubSeq(net, 1, Arriving)) ELSE buffers

C17_ChainStep ==
    /\ (Arriving > 0 /\ waiting = <<>>) => buffers' = C17_Chain
    /\ \/ buffers' = <<>>
       \/ \E j \in 1..Len(C17_Chain) :
             /\ Len(buffers'[1]) > 0
             /\ IsSuffix(buffers'[1], C17_Chain[j])
             /\ Tail(buffers') = SubSeq(C17_Chain, j + 1, Len(C17_Chain))

C17_ByteConservation == []C17_ChainIsUnconsumedEnd /\ [][C17_ChainStep]_vars

\* the string 'A' was read from a chain of two buffers: the rest of the first
\* buffer is back at the front, before the second
C17_Witness ==
    /\ calls = <<Delivered("readString", JsString(<<65>>))>>
    /\ buffers = <<<<0>>, <<255>>>>

----------------------------------------------------------------------------
(* C18: whatever size the string buffer starts with, 0 and 1 included, the *)
(* offset never exceeds the buffer's length and the buffer holds every     *)
(* byte accumulated since the last string was emitted.                     *)

C18_AccumulatorHoldsBytes ==
    /\ stringBufferOffset <= stringBuffer.length
    /\ Len(stringBuffer.data) = stringBufferOffset

----------------------------------------------------------------------------
(* C19: the queue is non-empty only while the session is busy.  An execute *)
(* call from outside a handler queues its command if and only if the       *)
(* session is busy.  A queued command leaves the queue only in the step in *)
(* which the login succeeds or a command's reply ends with status 0; that  *)
(* step takes one command, the oldest, writes it, and leaves the session   *)
(* busy.                                                                   *)

C19_QueuedOnlyWhileBusy == Len(queue) > 0 => busy

\* the application calls execute in this step, from outside a handler
C19_AppCalls == Len(issued') = Len(issued) + 1 /\ issued'[Len(issued')].from = "app"

\* the session goes from busy to free in this step: checkQueue runs
C19_Freed ==
    \/ ~LoggedIn /\ LoggedIn'
    \/ Len(finished') = Len(finished) + 1 /\ finished'[Len(finished')].code = 0

\* a command is written in this step
C19_Written == Len(written) >= 1 /\ Len(written') > Len(written)

C19_QueueStep ==
    /\ C19_AppCalls =>
          IF busy
          THEN /\ Len(queue') = Len(queue) + 1
               /\ queue'[1].query = issued'[Len(issued')].query
               /\ Tail(queue') = queue
               /\ written' = written
          ELSE /\ queue' = queue
               /\ Len(written') = Len(written) + 1
               /\ busy'
    /\ ~C19_AppCalls =>
          /\ Len(queue') >= Len(queue) - 1
          /\ (C19_Written \/ Len(queue') < Len(queue)) =>
                /\ C19_Freed
                /\ Len(written') = Len(written) + 1
                /\ busy'
                /\ Len(queue) > 0 =>
                      /\ written'[Len(written')] = Utf8Encode(queue[Len(queue)].query) \o <<0>>
                      /\ IsSuffix(SubSeq(queue, 1, Len(queue) - 1), queue')
          /\ (C19_Freed /\ ~C19_Written) => (~busy' /\ queue' = <<>>)

C19_QueueDiscipline == []C19_QueuedOnlyWhileBusy /\ [][C19_QueueStep]_vars

\* the second command was taken from the queue when the first one's reply
\* ended, while the command the first one's handler issued still waits
C19_Witness ==
    /\ Len(queue) = 1 /\ queue[1].query = ExitCommand
    /\ Len(written) = 3
    /\ busy /\ ~ended

----------------------------------------------------------------------------
(* C20: while a read is pending or the callback of a write is outstanding  *)
(* the session is busy; a session that is not busy has no read pending, no *)
(* write outstanding, an empty string buffer and a clear escape flag.      *)

C20_BusyWhileReading ==
    /\ (waiting # <<>> \/ Len(writeCallbacks) > 0) => busy
    /\ ~busy =>
          /\ waiting = <<>>
          /\ Len(writeCallbacks) = 0
          /\ stringBufferOffset = 0
          /\ ~inEscape

\* not busy after two commands were answered with status 0
C20_Witness ==
    /\ ~busy /\ ~ended
    /\ Len(finished) = 2
    /\ finished[2].result = <<82>> /\ finished[2].info = <<73>>

====
